---- MODULE Spec2Model ----
(***************************************************************************)
(* Mutable object channel: MutableObjectManager (channel registry and the  *)
(* acquire/release entry points) over one shared PlasmaObjectHeader and    *)
(* its object semaphore.  One object, one writer process (pw) and two      *)
(* reader processes; reader process p1 runs two reader threads that share  *)
(* one Channel record (its reader mutex and read cursor), p2 runs one.     *)
(*                                                                         *)
(* The manager methods are translated from                                 *)
(* experimental_mutable_object_manager.cc.  The header protocol            *)
(* (PlasmaObjectHeader::WriteAcquire / WriteRelease / ReadAcquire /        *)
(* ReadRelease / SetErrorUnlocked) is implemented elsewhere in the         *)
(* repository; the Header_* operators follow its description in the        *)
(* specification, section 4.A:                                             *)
(*  - a wait on object_sem together with the re-check of its condition     *)
(*    ("go back to waiting") is one step that is enabled when a token is   *)
(*    available and the condition the wait is stated to wait for holds;    *)
(*  - a waiter that observes has_error returns IOError;                    *)
(*  - on a header in error the releases change nothing, and their status   *)
(*    is left open (OK or IOError);                                        *)
(*  - the sections that run under header_sem are atomic steps.             *)
(* Threads follow the call pattern of the channel's users: a reader calls  *)
(* ReadRelease only after its ReadAcquire returned OK; the writer calls    *)
(* WriteAcquire and WriteRelease in any order.                             *)
(*                                                                         *)
(* Four specifications share the variables:                                *)
(*  - Spec (FairSpec with fairness): the acquire/release protocol and      *)
(*    SetError once every process has registered;                          *)
(*  - SpecReg: RegisterChannel with the creation latch of OpenSemaphores,  *)
(*    calls on an id that was never registered, and the teardown of the    *)
(*    managers (~MutableObjectManager, DestroySemaphores) over the named   *)
(*    semaphores;                                                          *)
(*  - SpecFwd: the forwarder of MutableObjectProvider (p1, I/O thread r1), *)
(*    from experimental_mutable_object_provider.cc: RegisterWriterChannel, *)
(*    PollWriterClosure with its reply callback, and the destructor;       *)
(*  - SpecPush: the receiving side of MutableObjectProvider (pw, handler   *)
(*    thread w): HandleRegisterMutableObject and HandlePushMutableObject,  *)
(*    with the bytes of the buffer and a local reader (r3).                *)
(***************************************************************************)
EXTENDS Integers, FiniteSets, Sequences, TLC

\* ---------------------------------------------------------------- bounds
\* Highest version the writer publishes.
MaxVersion == 2
\* Largest num_readers a writer declares.
MaxReaders == 2
\* Capacity of the object's buffer (MutableObject::allocated_size).
allocated_size == 2
\* One past the capacity: the data_size of an over-size request.
MaxSize == allocated_size + 1

\* ------------------------------------------------------ processes, threads
Procs == {"pw", "p1", "p2"}
WriterThreads == {"w"}
ReaderThreads == {"r1", "r2", "r3"}
Threads == WriterThreads \cup ReaderThreads

\* The process each thread runs in: r1 and r2 share process p1's Channel.
ProcOf(t) == CASE t = "w" -> "pw"
               [] t = "r1" -> "p1"
               [] t = "r2" -> "p1"
               [] t = "r3" -> "p2"

\* The role argument (reader = TRUE) each process passes to RegisterChannel.
RolesOf(p) == IF p = "pw" THEN {FALSE} ELSE {TRUE}

\* Sizes callers pass to WriteAcquire, at the boundary of the capacity: the
\* data fills the buffer or exceeds it, the metadata is empty or one byte.
DataSizes == {allocated_size, MaxSize}
MetadataSizes == {0, 1}

\* Processes that call SetError (p2 only ever sees the error as a peer).
ErrorCallers == {"pw", "p1"}

ReaderCounts == 1..MaxReaders
Versions == 1..MaxVersion

\* The object of the channel ("o1") and a second object ("o2") that only
\* process pw ever registers: it is there for the teardown, which goes
\* through every object of a manager.
Objects == {"o1", "o2"}

\* The roles RegisterChannel is called with on o1 while the channel is being
\* set up: p1 attaches as reader and as writer, the others with their role.
RegisterRoles(p) == IF p = "p1" THEN BOOLEAN ELSE RolesOf(p)

VARIABLES
  header,        \* the shared PlasmaObjectHeader
  object_sem,    \* value of the named semaphore "obj" + unique_name
  channels,      \* channels_ of each process: the Channel of the object
  semaphores_,   \* semaphores_ of each process: has an entry for the object
  regpc,         \* position of each process inside RegisterChannel
  halted,        \* process aborted by a failed RAY_CHECK
  haltInfo,      \* which call and which check aborted the process
  pc,            \* position of each thread
  args,          \* arguments of the WriteAcquire in progress
  op,            \* last operation each thread called
  ret,           \* status the last operation returned
  reads,         \* versions each process's channel was handed, in order
  declared,      \* num_readers each version was published with
  acquired,      \* successful ReadAcquires per version
  released,      \* completed ReadReleases per version
  regRet,        \* status of each process's last RegisterChannel
  sem_names,     \* which named semaphores of each object exist (are linked)
  elected,       \* how each process left the creation latch of o1
  dpc,           \* position of each process inside ~MutableObjectManager
  dcur,          \* object the destructor of each process is working on
  tmp,           \* objects the destructor of each process has still to do
  object2,       \* the second object: its header and pw's records of it
  provpc,        \* the provider's Register*Channel call in progress
  fwd,           \* position of the poll closure on the provider's executor
  io_stopped,    \* io_service_.stop() was called
  destr,         \* position inside ~MutableObjectProvider
  in_flight,     \* PushMutableObject RPCs sent and not yet replied to
  pushed,        \* the pushes the forwarder sent, in order
  replies,       \* reply callbacks the executor has started
  cross_node_map,\* cross_node_map_: the entry of the remote object
  buffer,        \* bytes of the object's buffer
  hpc,           \* position inside HandlePushMutableObject
  request,       \* the PushMutableObjectRequest being handled
  received       \* the pushes received, in order

\* Teardown of the managers and the named semaphores.
lifeVars == <<sem_names, elected, dpc, dcur, tmp, object2>>

\* The provider: its forwarder and its handler of inbound pushes.
fwdVars == <<provpc, fwd, io_stopped, destr, in_flight, pushed, replies>>
pushVars == <<cross_node_map, buffer, hpc, request, received>>
provVars == <<fwdVars, pushVars>>

vars == <<header, object_sem, channels, semaphores_, regpc, halted, haltInfo,
          pc, args, op, ret, reads, declared, acquired, released, regRet,
          lifeVars, provVars>>

\* Groups of variables that actions leave alone together.  regVars is the
\* state of registration, of teardown and of the provider, which the
\* channel protocol leaves alone.
regVars == <<semaphores_, regpc, regRet, lifeVars, provVars>>
haltVars == <<halted, haltInfo>>
histVars == <<reads, declared, acquired, released>>

\* ------------------------------------------------------------ initial state
NoChannel ==
  [present |-> FALSE, reader_registered |-> FALSE, writer_registered |-> FALSE,
   written |-> FALSE, next_version_to_read |-> 1, lock |-> "free"]

InitHeader ==
  [semaphores_created |-> "kUnitialized", version |-> 0, num_readers |-> 0,
   num_read_acquires_remaining |-> 0, num_read_releases_remaining |-> 0,
   data_size |-> 0, metadata_size |-> 0, has_error |-> FALSE]

NoArgs == [data_size |-> 0, metadata_size |-> 0, num_readers |-> 0]
NoHalt == [op |-> "none", check |-> "none"]

\* The Channel of process p after its RegisterChannel(object_id, object, role).
RegisteredChannel(p) ==
  [NoChannel EXCEPT !.present = TRUE,
                    !.reader_registered = (TRUE \in RolesOf(p)),
                    !.writer_registered = (FALSE \in RolesOf(p))]

\* The header after OpenSemaphores created the semaphores.
OpenedHeader == [InitHeader EXCEPT !.semaphores_created = "kDone"]

\* The second object while no process has registered it.
NoObject2 ==
  [has_error |-> FALSE, present |-> FALSE, reader_registered |-> FALSE,
   writer_registered |-> FALSE, semaphores |-> FALSE]

\* The second object after pw registered it as writer (and created its
\* semaphores).
RegisteredObject2 ==
  [NoObject2 EXCEPT !.present = TRUE, !.writer_registered = TRUE,
                    !.semaphores = TRUE]

NoNames == [hdr |-> FALSE, obj |-> FALSE]
BothNames == [hdr |-> TRUE, obj |-> TRUE]

\* No manager is being destroyed.
NoTeardown ==
  /\ dpc = [p \in Procs |-> "none"]
  /\ dcur = [p \in Procs |-> "none"]
  /\ tmp = [p \in Procs |-> {}]

NoRequest == [data_size |-> 0, metadata_size |-> 0, data |-> <<>>]
NoMapping == [present |-> FALSE, num_readers |-> 0]

\* A buffer of allocated_size bytes that nothing was written to.
EmptyBuffer == [i \in 1..allocated_size |-> "00"]

\* The provider after its construction: no channel registered through it,
\* the executor running and idle, no push sent or received.
NoProvider ==
  /\ provpc = "none"
  /\ fwd = "none"
  /\ io_stopped = FALSE
  /\ destr = "none"
  /\ in_flight = 0
  /\ pushed = <<>>
  /\ replies = 0
  /\ cross_node_map = NoMapping
  /\ buffer = EmptyBuffer
  /\ hpc = "idle"
  /\ request = NoRequest
  /\ received = <<>>

\* The channel protocol starts when every process has registered its role
\* on the object: the semaphores exist with value 1 and are open everywhere.
Init ==
  /\ sem_names = [o \in Objects |-> IF o = "o1" THEN BothNames ELSE NoNames]
  /\ elected = [p \in Procs |-> IF p = "pw" THEN "won" ELSE "late"]
  /\ NoTeardown
  /\ object2 = NoObject2
  /\ NoProvider
  /\ header = OpenedHeader
  /\ object_sem = 1
  /\ channels = [p \in Procs |-> RegisteredChannel(p)]
  /\ semaphores_ = [p \in Procs |-> TRUE]
  /\ regpc = [p \in Procs |-> "none"]
  /\ halted = [p \in Procs |-> FALSE]
  /\ haltInfo = [p \in Procs |-> NoHalt]
  /\ pc = [t \in Threads |-> "idle"]
  /\ args = [t \in Threads |-> NoArgs]
  /\ op = [t \in Threads |-> "none"]
  /\ ret = [t \in Threads |-> "none"]
  /\ reads = [p \in Procs |-> <<>>]
  /\ declared = [v \in Versions |-> 0]
  /\ acquired = [v \in Versions |-> 0]
  /\ released = [v \in Versions |-> 0]
  /\ regRet = [p \in Procs |-> "OK"]

\* A thread may take a step: its process is alive and is not inside
\* RegisterChannel (which holds channel_lock_, so GetChannel waits).
Runnable(t) == ~halted[ProcOf(t)] /\ regpc[ProcOf(t)] = "none"

\* GetChannel: process p has a Channel for the object (else nullptr).
GetChannel(p) == channels[p].present

\* A failed RAY_CHECK in operation o aborts process p: every thread of the
\* process stops where it is and no call of the process returns.
Halt(p, o, c) ==
  /\ halted' = [halted EXCEPT ![p] = TRUE]
  /\ haltInfo' = [haltInfo EXCEPT ![p] = [op |-> o, check |-> c]]
  /\ pc' = [u \in Threads |-> IF ProcOf(u) = p THEN "halted" ELSE pc[u]]
  /\ op' = [u \in Threads |-> IF ProcOf(u) = p THEN "none" ELSE op[u]]
  /\ ret' = [u \in Threads |-> IF ProcOf(u) = p THEN "none" ELSE ret[u]]
  /\ args' = [u \in Threads |-> IF ProcOf(u) = p THEN NoArgs ELSE args[u]]

\* The call o of thread t returns status s and the thread is idle again.
Return(t, o, s) ==
  /\ op' = [op EXCEPT ![t] = o]
  /\ ret' = [ret EXCEPT ![t] = s]
  /\ pc' = [pc EXCEPT ![t] = "idle"]
  /\ args' = [args EXCEPT ![t] = NoArgs]

\* ------------------------------------------ header protocol (section 4.A)
\* Variant: WriteAcquire takes object_sem without waiting for the drain.
Header_WriteAcquireReady_NoDrain(h, sem) ==
  /\ ~h.has_error
  /\ sem > 0

\* WriteAcquire waits on object_sem until the previous version is drained.
Header_WriteAcquireReady(h, sem) ==
  /\ ~h.has_error
  /\ sem > 0
  /\ h.num_read_releases_remaining = 0

Header_WriteAcquire(h, ds, ms, n) ==
  [h EXCEPT !.data_size = ds, !.metadata_size = ms, !.num_readers = n,
            !.num_read_acquires_remaining = n,
            !.num_read_releases_remaining = n]

\* WriteRelease increments version, then posts object_sem num_readers times.
Header_WriteRelease(h) == [h EXCEPT !.version = h.version + 1]

Header_WriteReleasePosts(h) == h.num_readers

\* Variant: ReadAcquire does not look at num_read_acquires_remaining.
Header_ReadAcquireReady_NoCount(h, sem, min_version) ==
  /\ ~h.has_error
  /\ sem > 0
  /\ h.version >= min_version

\* ReadAcquire waits on object_sem until a version >= the requested one is
\* visible and a read acquire remains.
Header_ReadAcquireReady(h, sem, min_version) ==
  /\ ~h.has_error
  /\ sem > 0
  /\ h.version >= min_version
  /\ h.num_read_acquires_remaining > 0

Header_ReadAcquire(h) ==
  [h EXCEPT !.num_read_acquires_remaining = h.num_read_acquires_remaining - 1]

\* ReadRelease decrements num_read_releases_remaining; the release that
\* reaches 0 posts object_sem once.
Header_ReadRelease(h) ==
  [h EXCEPT !.num_read_releases_remaining = h.num_read_releases_remaining - 1]

\* Variant: the last ReadRelease does not post object_sem.
Header_ReadReleasePosts_Never(h) == 0

Header_ReadReleasePosts(h) ==
  IF h.num_read_releases_remaining - 1 = 0 THEN 1 ELSE 0

\* SetErrorUnlocked sets has_error (idempotent).
Header_SetErrorUnlocked(h) == [h EXCEPT !.has_error = TRUE]

\* Threads waiting on object_sem: SetErrorUnlocked posts once for each.
Blocked == {t \in Threads : pc[t] \in {"wa_sem", "ra_sem"}}

Header_SetErrorPosts(h) == IF h.has_error THEN 0 ELSE Cardinality(Blocked)

\* ------------------------------------------------------- RegisterChannel
\* Variant: any Channel found by the emplace counts as registered.
AlreadyRegistered_AnyRole(ch, reader) == ch.present

\* The emplace found a Channel for the object and the requested role is
\* registered on it.
AlreadyRegistered(ch, reader) ==
  /\ ch.present
  /\ \/ reader /\ ch.reader_registered
     \/ ~reader /\ ch.writer_registered

\* RegisterChannel up to the load of semaphores_created in OpenSemaphores.
RegisterChannel(p, reader) ==
  /\ ~halted[p]
  /\ regpc[p] = "none"
  /\ LET ch == channels[p]
         ch1 == [ch EXCEPT !.present = TRUE]
         ch2 == IF reader THEN [ch1 EXCEPT !.reader_registered = TRUE]
                          ELSE [ch1 EXCEPT !.writer_registered = TRUE]
         level == header.semaphores_created
     IN IF AlreadyRegistered(ch, reader)
          THEN /\ regRet' = [regRet EXCEPT ![p] = "Invalid"]
               /\ UNCHANGED <<channels, regpc, elected>>
        ELSE IF semaphores_[p]
          THEN /\ channels' = [channels EXCEPT ![p] = ch2]
               /\ regRet' = [regRet EXCEPT ![p] = "OK"]
               /\ UNCHANGED <<regpc, elected>>
        ELSE IF level = "kUnitialized"
          THEN /\ channels' = [channels EXCEPT ![p] = ch2]
               /\ regRet' = [regRet EXCEPT ![p] = "pending"]
               /\ regpc' = [regpc EXCEPT ![p] = "cas"]
               /\ UNCHANGED elected
        ELSE /\ channels' = [channels EXCEPT ![p] = ch2]
             /\ regRet' = [regRet EXCEPT ![p] = "pending"]
             /\ regpc' = [regpc EXCEPT ![p] = "spin"]
             /\ elected' = [elected EXCEPT ![p] = "late"]
  /\ UNCHANGED <<header, object_sem, semaphores_, haltVars, pc, args, op, ret,
                 histVars, sem_names, dpc, dcur, tmp, object2>>

\* Variant: the exchange is a plain store and always succeeds.
CompareExchangeStrong_Store(current, expected) == TRUE

\* compare_exchange_strong succeeds when the latch holds the value loaded.
CompareExchangeStrong(current, expected) == current = expected

\* OpenSemaphores: the compare-exchange kUnitialized -> kInitializing.
OpenSemaphoresCAS(p) ==
  /\ ~halted[p]
  /\ regpc[p] = "cas"
  /\ IF CompareExchangeStrong(header.semaphores_created, "kUnitialized")
       THEN /\ header' = [header EXCEPT
                             !.semaphores_created = "kInitializing"]
            /\ regpc' = [regpc EXCEPT ![p] = "create"]
            /\ elected' = [elected EXCEPT ![p] = "won"]
       ELSE /\ regpc' = [regpc EXCEPT ![p] = "spin"]
            /\ elected' = [elected EXCEPT ![p] = "lost"]
            /\ UNCHANGED header
  /\ UNCHANGED provVars
  /\ UNCHANGED <<object_sem, channels, semaphores_, regRet, haltVars, pc,
                 args, op, ret, histVars, sem_names, dpc, dcur, tmp, object2>>

\* OpenSemaphores, create branch: both names are unlinked, then the object
\* semaphore is created (O_CREAT | O_EXCL) with value 1.
OpenSemaphoresCreateObject(p) ==
  /\ ~halted[p]
  /\ regpc[p] = "create"
  /\ sem_names' = [sem_names EXCEPT !["o1"] = [hdr |-> FALSE, obj |-> TRUE]]
  /\ object_sem' = 1
  /\ regpc' = [regpc EXCEPT ![p] = "create_hdr"]
  /\ UNCHANGED provVars
  /\ UNCHANGED <<header, channels, semaphores_, regRet, haltVars, pc, args,
                 op, ret, histVars, elected, dpc, dcur, tmp, object2>>

\* OpenSemaphores, create branch: the header semaphore is created.
OpenSemaphoresCreateHeader(p) ==
  /\ ~halted[p]
  /\ regpc[p] = "create_hdr"
  /\ sem_names' = [sem_names EXCEPT !["o1"].hdr = TRUE]
  /\ regpc' = [regpc EXCEPT ![p] = "store"]
  /\ UNCHANGED provVars
  /\ UNCHANGED <<header, object_sem, channels, semaphores_, regRet, haltVars,
                 pc, args, op, ret, histVars, elected, dpc, dcur, tmp,
                 object2>>

\* OpenSemaphores, create branch: semaphores_created is set to kDone, the
\* handles are stored in semaphores_ and RegisterChannel returns OK.
OpenSemaphoresCreate(p) ==
  /\ ~halted[p]
  /\ regpc[p] = "store"
  /\ header' = [header EXCEPT !.semaphores_created = "kDone"]
  /\ semaphores_' = [semaphores_ EXCEPT ![p] = TRUE]
  /\ regpc' = [regpc EXCEPT ![p] = "none"]
  /\ regRet' = [regRet EXCEPT ![p] = "OK"]
  /\ UNCHANGED provVars
  /\ UNCHANGED <<object_sem, channels, haltVars, pc, args, op, ret, histVars,
                 lifeVars>>

\* The loop around sched_yield() ends when semaphores_created is kDone.
SpinIsOver(level) == level = "kDone"

\* OpenSemaphores, open branch: spin until kDone, then open both semaphores
\* by name; sem_open of a name that does not exist returns SEM_FAILED and
\* the RAY_CHECK_NE aborts the process.
OpenSemaphoresOpen(p) ==
  /\ ~halted[p]
  /\ regpc[p] = "spin"
  /\ SpinIsOver(header.semaphores_created)
  /\ regpc' = [regpc EXCEPT ![p] = "none"]
  /\ IF sem_names["o1"].obj /\ sem_names["o1"].hdr
       THEN /\ semaphores_' = [semaphores_ EXCEPT ![p] = TRUE]
            /\ regRet' = [regRet EXCEPT ![p] = "OK"]
            /\ UNCHANGED <<haltVars, pc, args, op, ret>>
       ELSE /\ Halt(p, "RegisterChannel", "sem_open")
            /\ UNCHANGED <<semaphores_, regRet>>
  /\ UNCHANGED provVars
  /\ UNCHANGED <<header, object_sem, channels, histVars, lifeVars>>

\* ---------------------------------------------------------- WriteAcquire
\* Variant: the size check bounds each part alone.
FitsBuffer_EachPart(ds, ms) == ds <= allocated_size /\ ms <= allocated_size

\* Variant: the size check leaves out metadata_size.
FitsBuffer_DataOnly(ds, ms) == ds <= allocated_size

\* total_size = data_size + metadata_size fits the buffer.
FitsBuffer(ds, ms) == ds + ms <= allocated_size

\* Variant: the header's status is dropped and the call goes on.
WriteAcquireStatus_AlwaysOK(hs) == "OK"

\* RAY_RETURN_NOT_OK around the header's WriteAcquire: the header's status
\* is the status of the call.
WriteAcquireStatus(hs) == hs

\* Variant: written is set before the header's status is looked at.
WrittenAfterWriteAcquire_Always(s, w) == TRUE

\* channel->written after the header's WriteAcquire returned status s.
WrittenAfterWriteAcquire(s, w) == IF s = "OK" THEN TRUE ELSE w

\* WriteAcquire up to the call of the header's WriteAcquire.
WriteAcquire(t, ds, ms, n) ==
  /\ t \in WriterThreads
  /\ Runnable(t)
  /\ pc[t] = "idle"
  /\ header.version < MaxVersion
  /\ LET p == ProcOf(t)
         ch == channels[p]
     IN IF ~GetChannel(p)
          THEN /\ Return(t, "WriteAcquire", "ObjectNotFound")
               /\ UNCHANGED haltVars
        ELSE IF ~ch.writer_registered
          THEN Halt(p, "WriteAcquire", "writer_registered")
        ELSE IF ch.written
          THEN Halt(p, "WriteAcquire", "written")
        ELSE IF ~FitsBuffer(ds, ms)
          THEN /\ Return(t, "WriteAcquire", "InvalidArgument")
               /\ UNCHANGED haltVars
        ELSE IF ~semaphores_[p]
          THEN Halt(p, "WriteAcquire", "semaphores")
        ELSE /\ op' = [op EXCEPT ![t] = "WriteAcquire"]
             /\ ret' = [ret EXCEPT ![t] = "pending"]
             /\ pc' = [pc EXCEPT ![t] = "wa_sem"]
             /\ args' = [args EXCEPT ![t] = [data_size |-> ds,
                           metadata_size |-> ms, num_readers |-> n]]
             /\ UNCHANGED haltVars
  /\ UNCHANGED <<header, object_sem, channels, regVars, histVars>>

\* The header's WriteAcquire returns OK: the manager sets written.
WriteAcquireOK(t) ==
  /\ Runnable(t)
  /\ pc[t] = "wa_sem"
  /\ Header_WriteAcquireReady(header, object_sem)
  /\ LET p == ProcOf(t)
         a == args[t]
         s == WriteAcquireStatus("OK")
     IN /\ header' = Header_WriteAcquire(header, a.data_size, a.metadata_size,
                                         a.num_readers)
        /\ object_sem' = object_sem - 1
        /\ channels' = [channels EXCEPT ![p].written =
                            WrittenAfterWriteAcquire(s, channels[p].written)]
        /\ Return(t, "WriteAcquire", s)
  /\ UNCHANGED <<regVars, haltVars, histVars>>

\* The header's WriteAcquire observes has_error and returns IOError.
WriteAcquireError(t) ==
  /\ Runnable(t)
  /\ pc[t] = "wa_sem"
  /\ header.has_error
  /\ LET p == ProcOf(t)
         s == WriteAcquireStatus("IOError")
     IN /\ channels' = [channels EXCEPT ![p].written =
                            WrittenAfterWriteAcquire(s, channels[p].written)]
        /\ Return(t, "WriteAcquire", s)
  /\ UNCHANGED <<header, object_sem, regVars, haltVars, histVars>>

\* ---------------------------------------------------------- WriteRelease
\* channel->written after the header's WriteRelease returned status s.
WrittenAfterWriteRelease(s, w) == IF s = "OK" THEN FALSE ELSE w

\* WriteRelease on a channel without error.
WriteRelease(t) ==
  /\ t \in WriterThreads
  /\ Runnable(t)
  /\ pc[t] = "idle"
  /\ LET p == ProcOf(t)
         ch == channels[p]
     IN IF ~GetChannel(p)
          THEN /\ Return(t, "WriteRelease", "ObjectNotFound")
               /\ UNCHANGED <<haltVars, header, object_sem, channels,
                              declared>>
        ELSE IF ~ch.writer_registered
          THEN /\ Halt(p, "WriteRelease", "writer_registered")
               /\ UNCHANGED <<header, object_sem, channels, declared>>
        ELSE IF ~ch.written
          THEN /\ Halt(p, "WriteRelease", "written")
               /\ UNCHANGED <<header, object_sem, channels, declared>>
        ELSE /\ ~header.has_error
             /\ header' = Header_WriteRelease(header)
             /\ object_sem' = object_sem + Header_WriteReleasePosts(header)
             /\ declared' = [declared EXCEPT ![header.version + 1] =
                                header.num_readers]
             /\ channels' = [channels EXCEPT ![p].written =
                                WrittenAfterWriteRelease("OK", ch.written)]
             /\ Return(t, "WriteRelease", "OK")
             /\ UNCHANGED haltVars
  /\ UNCHANGED <<regVars, reads, acquired, released>>

\* WriteRelease on a channel in error: the header's release is a no-op and
\* its status hs is either one.
WriteReleaseError(t, hs) ==
  /\ t \in WriterThreads
  /\ Runnable(t)
  /\ pc[t] = "idle"
  /\ hs \in {"OK", "IOError"}
  /\ LET p == ProcOf(t)
         ch == channels[p]
     IN /\ GetChannel(p) /\ ch.writer_registered /\ ch.written
        /\ header.has_error
        /\ channels' = [channels EXCEPT ![p].written =
                           WrittenAfterWriteRelease(hs, ch.written)]
        /\ Return(t, "WriteRelease", hs)
  /\ UNCHANGED <<header, object_sem, regVars, haltVars, histVars>>

\* ----------------------------------------------------------- ReadAcquire
\* The version the manager asks the header for.
RequestedVersion(ch) == ch.next_version_to_read

\* Variant: the cursor is left one before the version read.
CursorAfterAcquire_Prev(v) == v - 1

\* channel->next_version_to_read after a read of version v.
CursorAfterAcquire(v) == v

\* channel->lock after the header's ReadAcquire failed: the call returns
\* through RAY_RETURN_NOT_OK, without Unlock().
LockAfterFailedReadAcquire(l) == l

\* ReadAcquire up to channel->lock->Lock().
ReadAcquire(t) ==
  /\ t \in ReaderThreads
  /\ Runnable(t)
  /\ pc[t] = "idle"
  /\ LET p == ProcOf(t)
         ch == channels[p]
     IN IF ~GetChannel(p)
          THEN /\ Return(t, "ReadAcquire", "ObjectNotFound")
               /\ UNCHANGED haltVars
        ELSE IF ~ch.reader_registered
          THEN Halt(p, "ReadAcquire", "reader_registered")
        ELSE /\ op' = [op EXCEPT ![t] = "ReadAcquire"]
             /\ ret' = [ret EXCEPT ![t] = "pending"]
             /\ pc' = [pc EXCEPT ![t] = "ra_lock"]
             /\ UNCHANGED <<args, haltVars>>
  /\ UNCHANGED <<header, object_sem, channels, regVars, histVars>>

\* channel->lock->Lock() returns: the reader mutex was free.
ReadAcquireLock(t) ==
  /\ Runnable(t)
  /\ pc[t] = "ra_lock"
  /\ LET p == ProcOf(t)
     IN /\ channels[p].lock = "free"
        /\ channels' = [channels EXCEPT ![p].lock = t]
        /\ IF ~semaphores_[p]
             THEN Halt(p, "ReadAcquire", "semaphores")
             ELSE /\ pc' = [pc EXCEPT ![t] = "ra_sem"]
                  /\ UNCHANGED <<args, op, ret, haltVars>>
  /\ UNCHANGED <<header, object_sem, regVars, histVars>>

\* The header's ReadAcquire returns OK with version_read = version.
ReadAcquireOK(t) ==
  /\ Runnable(t)
  /\ pc[t] = "ra_sem"
  /\ LET p == ProcOf(t)
         ch == channels[p]
         version_read == header.version
     IN /\ Header_ReadAcquireReady(header, object_sem, RequestedVersion(ch))
        /\ header' = Header_ReadAcquire(header)
        /\ object_sem' = object_sem - 1
        /\ IF ~(version_read > 0)
             THEN /\ Halt(p, "ReadAcquire", "version_read")
                  /\ UNCHANGED <<channels, reads, acquired>>
           ELSE IF ~(header.data_size + header.metadata_size
                       <= allocated_size)
             THEN /\ Halt(p, "ReadAcquire", "total_size")
                  /\ channels' = [channels EXCEPT ![p].next_version_to_read =
                                     CursorAfterAcquire(version_read)]
                  /\ UNCHANGED <<reads, acquired>>
           ELSE /\ channels' = [channels EXCEPT ![p].next_version_to_read =
                                   CursorAfterAcquire(version_read)]
                /\ op' = [op EXCEPT ![t] = "ReadAcquire"]
                /\ ret' = [ret EXCEPT ![t] = "OK"]
                /\ pc' = [pc EXCEPT ![t] = "reading"]
                /\ reads' = [reads EXCEPT ![p] =
                                Append(reads[p], version_read)]
                /\ acquired' = [acquired EXCEPT ![version_read] =
                                   acquired[version_read] + 1]
                /\ UNCHANGED <<args, haltVars>>
  /\ UNCHANGED <<regVars, declared, released>>

\* The header's ReadAcquire observes has_error and returns IOError.
ReadAcquireError(t) ==
  /\ Runnable(t)
  /\ pc[t] = "ra_sem"
  /\ header.has_error
  /\ LET p == ProcOf(t)
     IN channels' = [channels EXCEPT ![p].lock =
                        LockAfterFailedReadAcquire(channels[p].lock)]
  /\ Return(t, "ReadAcquire", "IOError")
  /\ UNCHANGED <<header, object_sem, regVars, haltVars, histVars>>

\* ----------------------------------------------------------- ReadRelease
\* Variant: ReadRelease leaves the cursor where it is.
CursorAfterRelease_NoInc(c) == c

\* channel->next_version_to_read++ after the header's ReadRelease.
CursorAfterRelease(c) == c + 1

\* ReadRelease on a channel without error, by the thread that read.
ReadRelease(t) ==
  /\ Runnable(t)
  /\ pc[t] = "reading"
  /\ LET p == ProcOf(t)
         ch == channels[p]
         v == ch.next_version_to_read
     IN IF ~ch.reader_registered
          THEN /\ Halt(p, "ReadRelease", "reader_registered")
               /\ UNCHANGED <<header, object_sem, channels, released>>
        ELSE /\ ~header.has_error
             /\ header' = Header_ReadRelease(header)
             /\ object_sem' = object_sem + Header_ReadReleasePosts(header)
             /\ channels' = [channels EXCEPT
                   ![p].next_version_to_read = CursorAfterRelease(v),
                   ![p].lock = "free"]
             /\ Return(t, "ReadRelease", "OK")
             /\ released' = [released EXCEPT ![v] = released[v] + 1]
             /\ UNCHANGED haltVars
  /\ UNCHANGED <<regVars, reads, declared, acquired>>

\* ReadRelease on a channel in error: the header's release is a no-op and
\* its status hs is either one; on IOError the call returns before the
\* increment and the Unlock().
ReadReleaseError(t, hs) ==
  /\ Runnable(t)
  /\ pc[t] = "reading"
  /\ hs \in {"OK", "IOError"}
  /\ LET p == ProcOf(t)
         ch == channels[p]
     IN /\ ch.reader_registered
        /\ header.has_error
        /\ channels' = IF hs = "OK"
             THEN [channels EXCEPT
                      ![p].next_version_to_read =
                          CursorAfterRelease(ch.next_version_to_read),
                      ![p].lock = "free"]
             ELSE channels
        /\ Return(t, "ReadRelease", hs)
  /\ UNCHANGED <<header, object_sem, regVars, haltVars, histVars>>

\* -------------------------------------------------------------- SetError
\* Registration flags of the channel after SetError(object_id).
ChannelAfterSetError(ch) ==
  [ch EXCEPT !.reader_registered = FALSE, !.writer_registered = FALSE]

\* SetError(object_id).
SetError(p) ==
  /\ ~halted[p]
  /\ regpc[p] = "none"
  /\ IF ~semaphores_[p]
       THEN /\ Halt(p, "SetError", "semaphores")
            /\ UNCHANGED <<header, object_sem, channels>>
     ELSE IF GetChannel(p)
       THEN /\ header' = Header_SetErrorUnlocked(header)
            /\ object_sem' = object_sem + Header_SetErrorPosts(header)
            /\ channels' = [channels EXCEPT
                               ![p] = ChannelAfterSetError(channels[p])]
            /\ UNCHANGED <<haltVars, pc, args, op, ret>>
     ELSE UNCHANGED <<header, object_sem, channels, haltVars, pc, args, op,
                      ret>>
  /\ UNCHANGED <<regVars, histVars>>

\* SetError() on the manager of p: SetError(object_id) for every entry of
\* channels_ (o1; pw's entry of the second object exists only while the
\* managers are set up and torn down).
SetErrorEntries(p) ==
  IF ~GetChannel(p)
    THEN UNCHANGED <<header, object_sem, channels, haltVars, pc, args, op,
                     ret>>
  ELSE IF ~semaphores_[p]
    THEN /\ Halt(p, "SetError", "semaphores")
         /\ UNCHANGED <<header, object_sem, channels>>
  ELSE /\ header' = Header_SetErrorUnlocked(header)
       /\ object_sem' = object_sem + Header_SetErrorPosts(header)
       /\ channels' = [channels EXCEPT
                          ![p] = ChannelAfterSetError(channels[p])]
       /\ UNCHANGED <<haltVars, pc, args, op, ret>>

\* SetError(): SetError(object_id) for every entry of channels_.
SetErrorAll(p) ==
  /\ ~halted[p]
  /\ regpc[p] = "none"
  /\ SetErrorEntries(p)
  /\ UNCHANGED <<regVars, histVars>>

\* ------------------------------------------------ calls on an unknown id
\* ReadRelease with an object_id that has no Channel in the process.
ReadReleaseNotFound(t) ==
  /\ t \in ReaderThreads
  /\ Runnable(t)
  /\ pc[t] = "idle"
  /\ ~GetChannel(ProcOf(t))
  /\ Return(t, "ReadRelease", "ObjectNotFound")
  /\ UNCHANGED <<header, object_sem, channels, regVars, haltVars, histVars>>

\* The manager of process p is in use: its destructor has not begun.
Alive(p) == dpc[p] = "none"

\* The threads that call with the id of an object their process has not
\* registered: the writer thread and one reader thread.
UnknownCallers == {"w", "r3"}

\* Calls made with the id of o1 by a process that has not registered it.
UnknownWriteAcquire(t, ds, ms, n) ==
  /\ t \in UnknownCallers
  /\ Alive(ProcOf(t))
  /\ ~GetChannel(ProcOf(t))
  /\ WriteAcquire(t, ds, ms, n)

UnknownWriteRelease(t) ==
  /\ t \in UnknownCallers
  /\ Alive(ProcOf(t))
  /\ ~GetChannel(ProcOf(t))
  /\ WriteRelease(t)

UnknownReadAcquire(t) ==
  /\ t \in UnknownCallers
  /\ Alive(ProcOf(t))
  /\ ~GetChannel(ProcOf(t))
  /\ ReadAcquire(t)

UnknownReadRelease(t) ==
  /\ t \in UnknownCallers
  /\ Alive(ProcOf(t))
  /\ ReadReleaseNotFound(t)

UnknownSetError(p) ==
  /\ Alive(p)
  /\ ~GetChannel(p)
  /\ SetError(p)

\* RegisterChannel on o1 by a process whose manager is in use.
AttachChannel(p, reader) ==
  /\ Alive(p)
  /\ reader \in RegisterRoles(p)
  /\ RegisterChannel(p, reader)
  /\ UNCHANGED provVars

\* -------------------------------------------------- ~MutableObjectManager
\* Objects with an entry in semaphores_ of process p.
SemaphoreMap(p) ==
  {o \in Objects : IF o = "o1" THEN semaphores_[p]
                               ELSE p = "pw" /\ object2.semaphores}

\* Objects with an entry in channels_ of process p.
ChannelMap(p) ==
  {o \in Objects : IF o = "o1" THEN channels[p].present
                               ELSE p = "pw" /\ object2.present}

\* has_error of the header of object o.
HasError(o) == IF o = "o1" THEN header.has_error ELSE object2.has_error

\* The destructor begins: semaphores_ is copied into tmp.
Destructor(p) ==
  /\ ~halted[p]
  /\ regpc[p] = "none"
  /\ dpc[p] = "none"
  /\ \A t \in Threads : ProcOf(t) = p => pc[t] = "idle"
  /\ tmp' = [tmp EXCEPT ![p] = SemaphoreMap(p)]
  /\ dpc' = [dpc EXCEPT ![p] = IF SemaphoreMap(p) = {} THEN "done"
                                                        ELSE "loop"]
  /\ UNCHANGED provVars
  /\ UNCHANGED <<header, object_sem, channels, semaphores_, regpc, regRet,
                 haltVars, pc, args, op, ret, histVars, sem_names, elected,
                 dcur, object2>>

\* The loop's SetError(object_id) for the next object o of tmp (the order of
\* a flat_hash_map: any).
DestructorSetError(p, o) ==
  /\ ~halted[p]
  /\ dpc[p] = "loop"
  /\ o \in tmp[p]
  /\ dcur' = [dcur EXCEPT ![p] = o]
  /\ dpc' = [dpc EXCEPT ![p] = "destroy"]
  /\ IF o = "o1"
       THEN /\ header' = Header_SetErrorUnlocked(header)
            /\ object_sem' = object_sem + Header_SetErrorPosts(header)
            /\ channels' = [channels EXCEPT
                               ![p] = ChannelAfterSetError(channels[p])]
            /\ UNCHANGED object2
       ELSE /\ object2' = [object2 EXCEPT
                              !.has_error = TRUE,
                              !.reader_registered = FALSE,
                              !.writer_registered = FALSE]
            /\ UNCHANGED <<header, object_sem, channels>>
  /\ UNCHANGED provVars
  /\ UNCHANGED <<semaphores_, regpc, regRet, haltVars, pc, args, op, ret,
                 histVars, sem_names, elected, tmp>>

\* The names of an object after sem_unlink of the header semaphore and, when
\* that returned 0, of the object semaphore.
NamesAfterUnlink(n) ==
  IF n.hdr THEN [hdr |-> FALSE, obj |-> FALSE] ELSE n

\* Both sem_unlink calls return 0: both names exist.
UnlinkSucceeds(n) == n.hdr /\ n.obj

\* DestroySemaphores(object_id) of the loop: the handles are closed, the
\* names unlinked (RAY_CHECK_EQ(sem_unlink(..), 0)), the entry erased.
DestroySemaphores(p) ==
  /\ ~halted[p]
  /\ dpc[p] = "destroy"
  /\ LET o == dcur[p]
         rest == tmp[p] \ {o}
     IN /\ sem_names' = [sem_names EXCEPT ![o] = NamesAfterUnlink(@)]
        /\ IF UnlinkSucceeds(sem_names[o])
             THEN /\ IF o = "o1"
                       THEN /\ semaphores_' = [semaphores_ EXCEPT
                                                  ![p] = FALSE]
                            /\ UNCHANGED object2
                       ELSE /\ object2' = [object2 EXCEPT
                                             !.semaphores = FALSE]
                            /\ UNCHANGED semaphores_
                  /\ tmp' = [tmp EXCEPT ![p] = rest]
                  /\ dcur' = [dcur EXCEPT ![p] = "none"]
                  /\ dpc' = [dpc EXCEPT ![p] = IF rest = {} THEN "done"
                                                            ELSE "loop"]
                  /\ UNCHANGED <<haltVars, pc, args, op, ret>>
             ELSE /\ Halt(p, "DestroySemaphores", "sem_unlink")
                  /\ UNCHANGED <<semaphores_, object2, tmp, dcur, dpc>>
  /\ UNCHANGED provVars
  /\ UNCHANGED <<header, object_sem, channels, regpc, regRet, histVars,
                 elected>>

\* ------------------------------------- MutableObjectProvider: forwarder
\* The process of the provider and its io_thread_, which runs the poll
\* closure and the reply callbacks.
Provider == "p1"
IOThread == "r1"

\* RegisterWriterChannel up to RegisterChannel(.., /*reader=*/false).
RegisterWriterChannel(p) ==
  /\ p = Provider
  /\ provpc = "none"
  /\ destr = "none"
  /\ fwd = "none"
  /\ RegisterChannel(p, FALSE)
  /\ provpc' = "writer"
  /\ UNCHANGED <<fwd, io_stopped, destr, in_flight, pushed, replies,
                 pushVars>>

\* RegisterReaderChannel up to RegisterChannel(.., /*reader=*/true).
RegisterReaderChannel(p) ==
  /\ p = Provider
  /\ provpc = "none"
  /\ destr = "none"
  /\ ~channels[p].reader_registered
  /\ RegisterChannel(p, TRUE)
  /\ provpc' = "reader"
  /\ UNCHANGED <<fwd, io_stopped, destr, in_flight, pushed, replies,
                 pushVars>>

\* RegisterChannel has returned: RAY_CHECK_OK on its status, and
\* RegisterWriterChannel posts the poll closure on io_service_.
RegisterChannelReturns(p) ==
  /\ p = Provider
  /\ ~halted[p]
  /\ provpc # "none"
  /\ regpc[p] = "none"
  /\ provpc' = "none"
  /\ IF regRet[p] # "OK"
       THEN /\ Halt(p, "RegisterChannel", "RAY_CHECK_OK")
            /\ UNCHANGED fwd
       ELSE /\ fwd' = IF provpc = "writer" THEN "posted" ELSE fwd
            /\ UNCHANGED <<haltVars, pc, args, op, ret>>
  /\ UNCHANGED <<header, object_sem, channels, semaphores_, regpc, regRet,
                 histVars, lifeVars, io_stopped, destr, in_flight, pushed,
                 replies, pushVars>>

\* The executor takes the posted poll closure and runs it.
RunPollClosure(t) ==
  /\ t = IOThread
  /\ ~halted[ProcOf(t)]
  /\ fwd = "posted"
  /\ ~io_stopped
  /\ fwd' = "poll"
  /\ UNCHANGED <<header, object_sem, channels, semaphores_, regpc, regRet,
                 haltVars, pc, args, op, ret, histVars, lifeVars, provpc,
                 io_stopped, destr, in_flight, pushed, replies, pushVars>>

\* PollWriterClosure calls ReadAcquire.
PollReadAcquire(t) ==
  /\ t = IOThread
  /\ fwd = "poll"
  /\ op[t] # "ReadAcquire"
  /\ ReadAcquire(t)

\* ReadAcquire returned a status other than OK: on IOError the closure
\* returns, any other status fails the RAY_CHECK_EQ.
PollReturns(t) ==
  /\ t = IOThread
  /\ ~halted[ProcOf(t)]
  /\ fwd = "poll"
  /\ pc[t] = "idle"
  /\ op[t] = "ReadAcquire"
  /\ IF ret[t] = "IOError"
       THEN /\ fwd' = "exit"
            /\ UNCHANGED <<haltVars, pc, args, op, ret>>
       ELSE /\ Halt(ProcOf(t), "PollWriterClosure", "RAY_CHECK_EQ")
            /\ UNCHANGED fwd
  /\ UNCHANGED <<header, object_sem, channels, semaphores_, regpc, regRet,
                 histVars, lifeVars, provpc, io_stopped, destr, in_flight,
                 pushed, replies, pushVars>>

\* Variant: the closure does not wait for the reply: the callback's work is
\* done right after the RPC was sent.
AfterPush_Inline(f) == "callback"

\* The closure returns once the RPC is sent; the loop goes on in the
\* reply callback.
AfterPush(f) == "rpc"

\* ReadAcquire returned OK: the closure sends PushMutableObject with the
\* sizes of the object it read.
PushMutableObject(t) ==
  /\ t = IOThread
  /\ ~halted[ProcOf(t)]
  /\ fwd = "poll"
  /\ pc[t] = "reading"
  /\ fwd' = AfterPush(fwd)
  /\ in_flight' = in_flight + 1
  /\ pushed' = Append(pushed,
                 [version |-> channels[ProcOf(t)].next_version_to_read,
                  data_size |-> header.data_size,
                  metadata_size |-> header.metadata_size])
  /\ UNCHANGED <<header, object_sem, channels, semaphores_, regpc, regRet,
                 haltVars, pc, args, op, ret, histVars, lifeVars, provpc,
                 io_stopped, destr, replies, pushVars>>

\* The reply arrives and the executor runs the callback.
PushReply(t) ==
  /\ t = IOThread
  /\ ~halted[ProcOf(t)]
  /\ fwd = "rpc"
  /\ in_flight > 0
  /\ ~io_stopped
  /\ fwd' = "callback"
  /\ in_flight' = in_flight - 1
  /\ replies' = replies + 1
  /\ UNCHANGED <<header, object_sem, channels, semaphores_, regpc, regRet,
                 haltVars, pc, args, op, ret, histVars, lifeVars, provpc,
                 io_stopped, destr, pushed, pushVars>>

\* The callback calls ReadRelease.
CallbackReadRelease(t) ==
  /\ t = IOThread
  /\ fwd = "callback"
  /\ ReadRelease(t)

CallbackReadReleaseError(t, hs) ==
  /\ t = IOThread
  /\ fwd = "callback"
  /\ ReadReleaseError(t, hs)

\* RAY_CHECK_OK on the status of ReadRelease, then the callback calls
\* PollWriterClosure again.
CallbackPoll(t) ==
  /\ t = IOThread
  /\ ~halted[ProcOf(t)]
  /\ fwd = "callback"
  /\ pc[t] = "idle"
  /\ op[t] = "ReadRelease"
  /\ IF ret[t] = "OK"
       THEN /\ fwd' = "poll"
            /\ UNCHANGED <<haltVars, pc, args, op, ret>>
       ELSE /\ Halt(ProcOf(t), "PollWriterClosure", "RAY_CHECK_OK")
            /\ UNCHANGED fwd
  /\ UNCHANGED <<header, object_sem, channels, semaphores_, regpc, regRet,
                 histVars, lifeVars, provpc, io_stopped, destr, in_flight,
                 pushed, replies, pushVars>>

\* ~MutableObjectProvider: io_service_.stop().
ProviderStop(p) ==
  /\ p = Provider
  /\ ~halted[p]
  /\ provpc = "none"
  /\ destr = "none"
  /\ io_stopped' = TRUE
  /\ destr' = "stopped"
  /\ UNCHANGED <<header, object_sem, channels, semaphores_, regpc, regRet,
                 haltVars, pc, args, op, ret, histVars, lifeVars, provpc,
                 fwd, in_flight, pushed, replies, pushVars>>

\* ~MutableObjectProvider: object_manager_.SetError().
ProviderSetError(p) ==
  /\ p = Provider
  /\ ~halted[p]
  /\ destr = "stopped"
  /\ SetErrorEntries(p)
  /\ destr' = "error"
  /\ UNCHANGED <<semaphores_, regpc, regRet, histVars, lifeVars, provpc,
                 fwd, io_stopped, in_flight, pushed, replies, pushVars>>

\* io_service_.run() returns once the service is stopped and no handler is
\* running.
IOThreadDone == io_stopped /\ fwd \notin {"poll", "callback"}

\* ~MutableObjectProvider: io_thread_.join() returns.
ProviderJoin(p) ==
  /\ p = Provider
  /\ ~halted[p]
  /\ destr = "error"
  /\ IOThreadDone
  /\ destr' = "joined"
  /\ UNCHANGED <<header, object_sem, channels, semaphores_, regpc, regRet,
                 haltVars, pc, args, op, ret, histVars, lifeVars, provpc,
                 fwd, io_stopped, in_flight, pushed, replies, pushVars>>

\* ------------------------------------------------ inbound pushes (provider)
\* The provider that receives pushes runs in process pw; its handlers run
\* on thread w, and thread r3 of process p2 is the local reader of L.
PushProvider == "pw"
HandlerThread == "w"
LocalReader == "r3"

Bytes == {"DE", "AD"}

\* The requests a remote forwarder sends: data_size + metadata_size bytes
\* that fit the local buffer, the data first.
PushRequests ==
  UNION { { [data_size |-> x[1], metadata_size |-> x[2], data |-> b] :
              b \in [1..(x[1] + x[2]) -> Bytes] } :
          x \in { y \in (1..allocated_size) \X MetadataSizes :
                    FitsBuffer(y[1], y[2]) } }

\* HandleRegisterMutableObject: insert the mapping (RAY_CHECK(success)),
\* then RegisterReaderChannel up to RegisterChannel(.., /*reader=*/true).
HandleRegisterMutableObject(p, num_readers) ==
  /\ p = PushProvider
  /\ hpc = "idle"
  /\ IF cross_node_map.present
       THEN /\ ~halted[p]
            /\ Halt(p, "HandleRegisterMutableObject", "success")
            /\ UNCHANGED <<header, object_sem, channels, semaphores_, regpc,
                           regRet, histVars, lifeVars, cross_node_map, hpc>>
       ELSE /\ cross_node_map' = [present |-> TRUE,
                                  num_readers |-> num_readers]
            /\ hpc' = "register"
            /\ RegisterChannel(p, TRUE)
  /\ UNCHANGED <<fwdVars, buffer, request, received>>

\* RegisterChannel has returned: RAY_CHECK_OK on its status.
HandleRegisterReturns(p) ==
  /\ p = PushProvider
  /\ ~halted[p]
  /\ hpc = "register"
  /\ regpc[p] = "none"
  /\ IF regRet[p] = "OK"
       THEN /\ hpc' = "idle"
            /\ UNCHANGED <<haltVars, pc, args, op, ret>>
       ELSE /\ Halt(p, "RegisterChannel", "RAY_CHECK_OK")
            /\ UNCHANGED hpc
  /\ UNCHANGED <<header, object_sem, channels, semaphores_, regpc, regRet,
                 histVars, lifeVars, fwdVars, cross_node_map, buffer,
                 request, received>>

\* The process of the provider registers the writer role on L by a
\* RegisterChannel call of its own.
RegisterLocalWriter(p) ==
  /\ p = PushProvider
  /\ hpc = "idle"
  /\ AttachChannel(p, FALSE)

\* HandlePushMutableObject up to the call of WriteAcquire: the lookup in
\* cross_node_map_ (RAY_CHECK(it != end())) and the sizes of the request.
HandlePushMutableObject(t, rq) ==
  /\ t = HandlerThread
  /\ Runnable(t)
  /\ hpc = "idle"
  /\ pc[t] = "idle"
  /\ Len(received) < MaxVersion
  /\ IF ~cross_node_map.present
       THEN /\ Halt(ProcOf(t), "HandlePushMutableObject", "cross_node_map")
            /\ UNCHANGED <<hpc, request, received>>
       ELSE /\ hpc' = "acquire"
            /\ request' = rq
            /\ received' = Append(received, rq)
            /\ op' = [op EXCEPT ![t] = "HandlePushMutableObject"]
            /\ UNCHANGED <<haltVars, pc, args, ret>>
  /\ UNCHANGED <<header, object_sem, channels, semaphores_, regpc, regRet,
                 histVars, lifeVars, fwdVars, cross_node_map, buffer>>

\* The handler calls WriteAcquire with the sizes of the request and the
\* num_readers of the mapping.
HandlePushWriteAcquire(t) ==
  /\ t = HandlerThread
  /\ hpc = "acquire"
  /\ op[t] = "HandlePushMutableObject"
  /\ WriteAcquire(t, request.data_size, request.metadata_size,
                  cross_node_map.num_readers)

\* The buffer after memcpy(data->Data(), request.data().data(), total_size).
BufferAfterCopy(b, rq) ==
  [i \in 1..allocated_size |->
     IF i <= rq.data_size + rq.metadata_size THEN rq.data[i] ELSE b[i]]

\* RAY_CHECK_OK on the status of WriteAcquire, then the memcpy of the data
\* and the metadata into the buffer.
HandlePushCopy(t) ==
  /\ t = HandlerThread
  /\ Runnable(t)
  /\ hpc = "acquire"
  /\ pc[t] = "idle"
  /\ op[t] = "WriteAcquire"
  /\ IF ret[t] = "OK"
       THEN /\ buffer' = BufferAfterCopy(buffer, request)
            /\ hpc' = "release"
            /\ UNCHANGED <<haltVars, pc, args, op, ret>>
       ELSE /\ Halt(ProcOf(t), "HandlePushMutableObject", "RAY_CHECK_OK")
            /\ UNCHANGED <<buffer, hpc>>
  /\ UNCHANGED <<header, object_sem, channels, semaphores_, regpc, regRet,
                 histVars, lifeVars, fwdVars, cross_node_map, request,
                 received>>

\* The handler calls WriteRelease.
HandlePushWriteRelease(t) ==
  /\ t = HandlerThread
  /\ hpc = "release"
  /\ op[t] = "WriteAcquire"
  /\ WriteRelease(t)

\* RAY_CHECK_OK on the status of WriteRelease; the handler returns.
HandlePushReturns(t) ==
  /\ t = HandlerThread
  /\ Runnable(t)
  /\ hpc = "release"
  /\ pc[t] = "idle"
  /\ op[t] = "WriteRelease"
  /\ IF ret[t] = "OK"
       THEN /\ hpc' = "idle"
            /\ request' = NoRequest
            /\ UNCHANGED <<haltVars, pc, args, op, ret>>
       ELSE /\ Halt(ProcOf(t), "HandlePushMutableObject", "RAY_CHECK_OK")
            /\ UNCHANGED <<hpc, request>>
  /\ UNCHANGED <<header, object_sem, channels, semaphores_, regpc, regRet,
                 histVars, lifeVars, fwdVars, cross_node_map, buffer,
                 received>>

\* The RayObject a ReadAcquire hands out: two slices of the buffer.
ReadData == SubSeq(buffer, 1, header.data_size)
ReadMetadata ==
  SubSeq(buffer, header.data_size + 1,
         header.data_size + header.metadata_size)

\* ---------------------------------------------------------- specification
Next ==
  \/ \E t \in Threads, ds \in DataSizes, ms \in MetadataSizes,
       n \in ReaderCounts :
        WriteAcquire(t, ds, ms, n)
  \/ \E t \in Threads : WriteAcquireOK(t)
  \/ \E t \in Threads : WriteAcquireError(t)
  \/ \E t \in Threads : WriteRelease(t)
  \/ \E t \in Threads, hs \in {"OK", "IOError"} : WriteReleaseError(t, hs)
  \/ \E t \in Threads : ReadAcquire(t)
  \/ \E t \in Threads : ReadAcquireLock(t)
  \/ \E t \in Threads : ReadAcquireOK(t)
  \/ \E t \in Threads : ReadAcquireError(t)
  \/ \E t \in Threads : ReadRelease(t)
  \/ \E t \in Threads, hs \in {"OK", "IOError"} : ReadReleaseError(t, hs)
  \/ \E p \in ErrorCallers : SetError(p)
  \/ \E p \in ErrorCallers : SetErrorAll(p)

Spec == Init /\ [][Next]_vars

\* Under FairSpec a call that can go on does go on: the scheduler runs a
\* thread whose mutex is free, whose wait on object_sem is over, or that
\* observes has_error while it waits.  Callers are not obliged to call.
FairSpec ==
  /\ Spec
  /\ \A t \in Threads : WF_vars(ReadAcquireLock(t))
  /\ \A t \in Threads : WF_vars(ReadAcquireOK(t))
  /\ \A t \in Threads : WF_vars(ReadAcquireError(t))
  /\ \A t \in Threads : WF_vars(WriteAcquireOK(t))
  /\ \A t \in Threads : WF_vars(WriteAcquireError(t))

\* ------------------------------------- registration and teardown of o1
\* No process has registered o1; names of a run that crashed may be left
\* over.  pw has registered the second object.
InitReg ==
  /\ header = InitHeader
  /\ object_sem = 0
  /\ channels = [p \in Procs |-> NoChannel]
  /\ semaphores_ = [p \in Procs |-> FALSE]
  /\ regpc = [p \in Procs |-> "none"]
  /\ regRet = [p \in Procs |-> "none"]
  /\ halted = [p \in Procs |-> FALSE]
  /\ haltInfo = [p \in Procs |-> NoHalt]
  /\ pc = [t \in Threads |-> "idle"]
  /\ args = [t \in Threads |-> NoArgs]
  /\ op = [t \in Threads |-> "none"]
  /\ ret = [t \in Threads |-> "none"]
  /\ reads = [p \in Procs |-> <<>>]
  /\ declared = [v \in Versions |-> 0]
  /\ acquired = [v \in Versions |-> 0]
  /\ released = [v \in Versions |-> 0]
  /\ \E stale \in {NoNames, BothNames} :
       sem_names = [o \in Objects |-> IF o = "o1" THEN stale ELSE BothNames]
  /\ elected = [p \in Procs |-> "none"]
  /\ NoTeardown
  /\ object2 = RegisteredObject2
  /\ NoProvider

NextReg ==
  \/ \E p \in Procs, reader \in BOOLEAN : AttachChannel(p, reader)
  \/ \E p \in Procs : OpenSemaphoresCAS(p)
  \/ \E p \in Procs : OpenSemaphoresCreateObject(p)
  \/ \E p \in Procs : OpenSemaphoresCreateHeader(p)
  \/ \E p \in Procs : OpenSemaphoresCreate(p)
  \/ \E p \in Procs : OpenSemaphoresOpen(p)
  \/ \E t \in Threads, ds \in DataSizes, ms \in MetadataSizes,
       n \in ReaderCounts :
        UnknownWriteAcquire(t, ds, ms, n)
  \/ \E t \in Threads : UnknownWriteRelease(t)
  \/ \E t \in Threads : UnknownReadAcquire(t)
  \/ \E t \in Threads : UnknownReadRelease(t)
  \/ \E p \in Procs : UnknownSetError(p)
  \/ \E p \in Procs : Destructor(p)
  \/ \E p \in Procs, o \in Objects : DestructorSetError(p, o)
  \/ \E p \in Procs : DestroySemaphores(p)

SpecReg == InitReg /\ [][NextReg]_vars

\* -------------------------------------------------- forwarding of o1
\* A third party (pw) has registered o1 as writer and writes it; the
\* provider has registered nothing yet.
InitFwd ==
  /\ header = OpenedHeader
  /\ object_sem = 1
  /\ channels = [p \in Procs |-> IF p = "pw" THEN RegisteredChannel(p)
                                             ELSE NoChannel]
  /\ semaphores_ = [p \in Procs |-> p = "pw"]
  /\ regpc = [p \in Procs |-> "none"]
  /\ regRet = [p \in Procs |-> IF p = "pw" THEN "OK" ELSE "none"]
  /\ halted = [p \in Procs |-> FALSE]
  /\ haltInfo = [p \in Procs |-> NoHalt]
  /\ pc = [t \in Threads |-> "idle"]
  /\ args = [t \in Threads |-> NoArgs]
  /\ op = [t \in Threads |-> "none"]
  /\ ret = [t \in Threads |-> "none"]
  /\ reads = [p \in Procs |-> <<>>]
  /\ declared = [v \in Versions |-> 0]
  /\ acquired = [v \in Versions |-> 0]
  /\ released = [v \in Versions |-> 0]
  /\ sem_names = [o \in Objects |-> IF o = "o1" THEN BothNames ELSE NoNames]
  /\ elected = [p \in Procs |-> IF p = "pw" THEN "won" ELSE "none"]
  /\ NoTeardown
  /\ object2 = NoObject2
  /\ NoProvider

NextFwd ==
  \/ \E p \in Procs : RegisterWriterChannel(p)
  \/ \E p \in Procs : RegisterReaderChannel(p)
  \/ \E p \in Procs : OpenSemaphoresOpen(p)
  \/ \E p \in Procs : RegisterChannelReturns(p)
  \/ \E t \in Threads : RunPollClosure(t)
  \/ \E t \in Threads : PollReadAcquire(t)
  \/ \E t \in Threads : ReadAcquireLock(t)
  \/ \E t \in Threads : ReadAcquireOK(t)
  \/ \E t \in Threads : ReadAcquireError(t)
  \/ \E t \in Threads : PollReturns(t)
  \/ \E t \in Threads : PushMutableObject(t)
  \/ \E t \in Threads : PushReply(t)
  \/ \E t \in Threads : CallbackReadRelease(t)
  \/ \E t \in Threads, hs \in {"OK", "IOError"} :
        CallbackReadReleaseError(t, hs)
  \/ \E t \in Threads : CallbackPoll(t)
  \/ \E p \in Procs : ProviderStop(p)
  \/ \E p \in Procs : ProviderSetError(p)
  \/ \E p \in Procs : ProviderJoin(p)
  \/ \E t \in Threads, ds \in DataSizes, ms \in MetadataSizes,
       n \in ReaderCounts :
        WriteAcquire(t, ds, ms, n)
  \/ \E t \in Threads : WriteAcquireOK(t)
  \/ \E t \in Threads : WriteAcquireError(t)
  \/ \E t \in Threads : WriteRelease(t)
  \/ \E t \in Threads, hs \in {"OK", "IOError"} : WriteReleaseError(t, hs)
  \/ \E p \in {"pw"} : SetError(p)

SpecFwd == InitFwd /\ [][NextFwd]_vars

\* -------------------------------------------------- pushes into L (o1)
\* The local reader (p2) has registered L as reader and created its
\* semaphores; the provider has registered nothing yet.
InitPush ==
  /\ header = OpenedHeader
  /\ object_sem = 1
  /\ channels = [p \in Procs |-> IF p = "p2" THEN RegisteredChannel(p)
                                             ELSE NoChannel]
  /\ semaphores_ = [p \in Procs |-> p = "p2"]
  /\ regpc = [p \in Procs |-> "none"]
  /\ regRet = [p \in Procs |-> IF p = "p2" THEN "OK" ELSE "none"]
  /\ halted = [p \in Procs |-> FALSE]
  /\ haltInfo = [p \in Procs |-> NoHalt]
  /\ pc = [t \in Threads |-> "idle"]
  /\ args = [t \in Threads |-> NoArgs]
  /\ op = [t \in Threads |-> "none"]
  /\ ret = [t \in Threads |-> "none"]
  /\ reads = [p \in Procs |-> <<>>]
  /\ declared = [v \in Versions |-> 0]
  /\ acquired = [v \in Versions |-> 0]
  /\ released = [v \in Versions |-> 0]
  /\ sem_names = [o \in Objects |-> IF o = "o1" THEN BothNames ELSE NoNames]
  /\ elected = [p \in Procs |-> IF p = "p2" THEN "won" ELSE "none"]
  /\ NoTeardown
  /\ object2 = NoObject2
  /\ NoProvider

NextPush ==
  \/ \E p \in Procs, n \in ReaderCounts : HandleRegisterMutableObject(p, n)
  \/ \E p \in Procs : OpenSemaphoresOpen(p)
  \/ \E p \in Procs : HandleRegisterReturns(p)
  \/ \E p \in Procs : RegisterLocalWriter(p)
  \/ \E t \in Threads, rq \in PushRequests : HandlePushMutableObject(t, rq)
  \/ \E t \in Threads : HandlePushWriteAcquire(t)
  \/ \E t \in Threads : WriteAcquireOK(t)
  \/ \E t \in Threads : HandlePushCopy(t)
  \/ \E t \in Threads : HandlePushWriteRelease(t)
  \/ \E t \in Threads : HandlePushReturns(t)
  \/ \E t \in {LocalReader} : ReadAcquire(t)
  \/ \E t \in Threads : ReadAcquireLock(t)
  \/ \E t \in Threads : ReadAcquireOK(t)
  \/ \E t \in Threads : ReadRelease(t)

SpecPush == InitPush /\ [][NextPush]_vars

\* ------------------------------------------------------------- properties
Written(t) == channels[ProcOf(t)].written
Reading(t) == pc[t] = "reading"
Returned(t, o, s) == pc[t] = "idle" /\ op[t] = o /\ ret[t] = s

\* C1: the writer's ownership of the buffer (from WriteAcquire returning OK
\* until WriteRelease) and a reader's ownership (from ReadAcquire returning
\* OK until ReadRelease) never overlap.
C1_OwnershipDisjoint ==
  \A w \in WriterThreads, r \in ReaderThreads : ~(Written(w) /\ Reading(r))

\* A reader holds version 1 while the writer waits in its next WriteAcquire.
C1_Witness ==
  /\ header.version = 1
  /\ \E w \in WriterThreads : pc[w] = "wa_sem"
  /\ \E r \in ReaderThreads : Reading(r)

\* C2: when a WriteAcquire has returned OK after version v was published
\* with num_readers = N, at least N ReadReleases of version v have completed.
C2_NoOverwriteBeforeDrain ==
  \A w \in WriterThreads :
    (Returned(w, "WriteAcquire", "OK") /\ header.version >= 1)
      => released[header.version] >= declared[header.version]

\* The writer re-acquired after both declared readers released version 1.
C2_Witness ==
  /\ \E w \in WriterThreads : Returned(w, "WriteAcquire", "OK")
  /\ header.version = 1
  /\ declared[1] = 2
  /\ released[1] = 2

\* C3: the versions handed to one channel by successive successful
\* ReadAcquires are strictly increasing.
C3_StrictlyIncreasingReads ==
  \A p \in Procs : \A i \in 1..Len(reads[p]) : \A j \in 1..Len(reads[p]) :
    i < j => reads[p][i] < reads[p][j]

\* The channel shared by two reader threads has read two versions.
C3_Witness == Len(reads["p1"]) >= 2

\* C4: no version is handed out by more successful ReadAcquires than the
\* num_readers it was published with.
C4_AtMostNumReaders ==
  \A v \in Versions : acquired[v] <= declared[v]

\* Version v was published for one reader and read once; another channel
\* whose cursor admits v waits in ReadAcquire.
C4_Witness ==
  \E v \in Versions : \E r \in ReaderThreads :
    /\ ~header.has_error
    /\ header.version = v
    /\ declared[v] = 1
    /\ acquired[v] = 1
    /\ pc[r] = "ra_sem"
    /\ channels[ProcOf(r)].next_version_to_read <= v

\* C5: absent errors, once num_readers ReadAcquire/ReadRelease pairs have
\* completed on the published version, num_read_releases_remaining is 0 and
\* the header lets the next WriteAcquire through.
C5_DrainedLetsWriterIn ==
  \A w \in WriterThreads :
    ( /\ ~header.has_error
      /\ header.version >= 1
      /\ released[header.version] = declared[header.version]
      /\ ~Written(w) )
    => /\ header.num_read_releases_remaining = 0
       /\ Header_WriteAcquireReady(header, object_sem)

\* Both declared readers released version 1 and the writer is waiting.
C5_Witness ==
  /\ ~header.has_error
  /\ header.version = 1
  /\ declared[1] = 2
  /\ released[1] = 2
  /\ \E w \in WriterThreads : pc[w] = "wa_sem"

\* C6: once SetError has been called, a ReadAcquire or WriteAcquire on the
\* channel that returns returns IOError, and no such call made by a process
\* (the caller of SetError included) aborts it on a registration check.
RegistrationChecks == {"reader_registered", "writer_registered"}

C6_AcquireAfterErrorReturnsIOError ==
  [][\A t \in Threads :
       header.has_error =>
         /\ (pc[t] \in {"ra_sem", "wa_sem"} /\ pc'[t] = "idle")
              => ret'[t] = "IOError"
         /\ ~( /\ ~halted[ProcOf(t)]
               /\ halted'[ProcOf(t)]
               /\ haltInfo'[ProcOf(t)].op \in {"ReadAcquire", "WriteAcquire"}
               /\ haltInfo'[ProcOf(t)].check \in RegistrationChecks )]_vars

\* C7: a ReadAcquire or WriteAcquire that is waiting on object_sem when the
\* error is set eventually returns IOError.
C7_BlockedAcquireReturnsIOError ==
  \A t \in Threads :
    (pc[t] \in {"ra_sem", "wa_sem"} /\ header.has_error)
      ~> Returned(t, IF t \in WriterThreads THEN "WriteAcquire"
                                            ELSE "ReadAcquire", "IOError")

\* C8: a ReadAcquire that returned IOError does not leave the channel's
\* reader mutex held by the thread that called it.
C8_FailedReadAcquireUnlocks ==
  \A r \in ReaderThreads :
    Returned(r, "ReadAcquire", "IOError") => channels[ProcOf(r)].lock # r

\* C9: an in-order WriteAcquire on a registered channel whose data_size +
\* metadata_size exceeds allocated_size returns InvalidArgument and leaves
\* written false and the header, the semaphore and the channel unchanged.
C9_OversizeWriteAcquire ==
  [][\A t \in WriterThreads, ds \in DataSizes, ms \in MetadataSizes,
        n \in ReaderCounts :
       ( /\ WriteAcquire(t, ds, ms, n)
         /\ ds + ms > allocated_size
         /\ channels[ProcOf(t)].present
         /\ channels[ProcOf(t)].writer_registered
         /\ ~Written(t) )
       => /\ pc'[t] = "idle"
          /\ ret'[t] = "InvalidArgument"
          /\ ~channels'[ProcOf(t)].written
          /\ UNCHANGED <<header, object_sem, channels, semaphores_>>]_vars

\* An over-size WriteAcquire has returned InvalidArgument on an idle channel
\* that a fitting WriteAcquire can still take.
C9_Witness ==
  \E w \in WriterThreads :
    /\ Returned(w, "WriteAcquire", "InvalidArgument")
    /\ ~Written(w)
    /\ Header_WriteAcquireReady(header, object_sem)

\* C10: written becomes true exactly when a WriteAcquire returns OK and
\* false exactly when a WriteRelease returns OK; a WriteAcquire while
\* written and a WriteRelease while not written are rejected (the process
\* aborts) and every failed call leaves written as it was.
C10_WrittenInterval ==
  [][\A t \in WriterThreads :
       LET p == ProcOf(t)
           w0 == channels[p].written
           w1 == channels'[p].written
           registered == channels[p].present /\ channels[p].writer_registered
       IN /\ WriteAcquireOK(t) => (~w0 /\ w1 /\ ret'[t] = "OK")
          /\ WriteAcquireError(t) => (w1 = w0 /\ ret'[t] = "IOError")
          /\ (\E ds \in DataSizes, ms \in MetadataSizes, n \in ReaderCounts :
                WriteAcquire(t, ds, ms, n))
               => (w1 = w0 /\ (registered /\ w0 => halted'[p]))
          /\ WriteRelease(t)
               => IF ret'[t] = "OK" /\ pc'[t] = "idle"
                    THEN w0 /\ ~w1
                    ELSE w1 = w0 /\ (registered /\ ~w0 => halted'[p])
          /\ (\E hs \in {"OK", "IOError"} :
                WriteReleaseError(t, hs) /\ ret'[t] # "OK") => w1 = w0
          /\ (w1 # w0) => (ret'[t] = "OK" /\ pc[t] \in {"idle", "wa_sem"}
                           /\ pc'[t] = "idle"
                           /\ op'[t] = IF w1 THEN "WriteAcquire"
                                             ELSE "WriteRelease")]_vars

\* A second version is being written: written went true, false and true.
C10_Witness ==
  \E w \in WriterThreads :
    /\ Written(w)
    /\ Returned(w, "WriteAcquire", "OK")
    /\ header.version = 1

\* C11: RegisterChannel with a role that is registered already for the
\* object in this process returns Invalid and leaves the channel's flags
\* and the semaphore map as they were; with the other role on an existing
\* channel it returns OK and sets that role's flag only.
C11_DuplicateRoleRejected ==
  [][\A p \in Procs, reader \in BOOLEAN :
       AttachChannel(p, reader) =>
         LET ch == channels[p]
             had == IF reader THEN ch.reader_registered
                              ELSE ch.writer_registered
             has == IF reader THEN channels'[p].reader_registered
                              ELSE channels'[p].writer_registered
             other == IF reader THEN ch.writer_registered
                                ELSE ch.reader_registered
             other1 == IF reader THEN channels'[p].writer_registered
                                 ELSE channels'[p].reader_registered
         IN IF ch.present /\ had
              THEN /\ regRet'[p] = "Invalid"
                   /\ UNCHANGED <<channels, semaphores_, sem_names, header>>
              ELSE /\ regRet'[p] # "Invalid"
                   /\ ch.present => regRet'[p] = "OK"
                   /\ has
                   /\ other1 = other
                   /\ UNCHANGED semaphores_]_vars

\* p1 holds both roles and its last RegisterChannel was rejected.
C11_Witness ==
  /\ channels["p1"].reader_registered
  /\ channels["p1"].writer_registered
  /\ regRet["p1"] = "Invalid"
  /\ semaphores_["p1"]

\* No manager has begun its teardown.
NoTeardownYet == \A p \in Procs : dpc[p] = "none"

\* C12: of the processes that register a fresh object concurrently at most
\* one wins the exchange kUnitialized -> kInitializing, and exactly one has
\* when a process holds handles; semaphores_created is kDone only when both
\* semaphores exist; a process holds handles only once the latch is kDone;
\* every process whose RegisterChannel returned holds both handles, and none
\* is aborted in RegisterChannel.
C12_CreatorElection ==
  /\ Cardinality({p \in Procs : elected[p] = "won"}) <= 1
  /\ (\E p \in Procs : semaphores_[p])
       => Cardinality({p \in Procs : elected[p] = "won"}) = 1
  /\ (header.semaphores_created = "kDone" /\ NoTeardownYet)
       => sem_names["o1"] = BothNames
  /\ header.semaphores_created = "kUnitialized"
       => \A p \in Procs : elected[p] # "won"
  /\ \A p \in Procs :
       /\ semaphores_[p] => header.semaphores_created = "kDone"
       /\ (regRet[p] = "OK" /\ Alive(p)) => semaphores_[p]
       /\ NoTeardownYet => haltInfo[p].op # "RegisterChannel"

\* All three processes hold their handles; one created the semaphores and
\* another lost the exchange it attempted at the same time.
C12_Witness ==
  /\ \A p \in Procs : semaphores_[p] /\ regRet[p] = "OK"
  /\ \E p \in Procs : elected[p] = "won"
  /\ \E p \in Procs : elected[p] = "lost"
  /\ NoTeardownYet

\* C13: the teardown of a manager completes whether or not another process
\* has unlinked the names already: no process is aborted in
\* DestroySemaphores.
C13_UnlinkIdempotent ==
  \A p \in Procs : haltInfo[p].op # "DestroySemaphores"

\* C14: WriteAcquire, WriteRelease, ReadAcquire, ReadRelease and
\* SetError(object_id) with an id the process never registered return
\* ObjectNotFound (the process goes on) and change no channel, header or
\* semaphore state.
C14_UnknownIdReturnsNotFound ==
  [][/\ \A t \in UnknownCallers :
          ( \/ \E ds \in DataSizes, ms \in MetadataSizes, n \in ReaderCounts :
                 UnknownWriteAcquire(t, ds, ms, n)
            \/ UnknownWriteRelease(t)
            \/ UnknownReadAcquire(t)
            \/ UnknownReadRelease(t) )
          => /\ ret'[t] = "ObjectNotFound"
             /\ pc'[t] = "idle"
             /\ UNCHANGED <<header, object_sem, channels, semaphores_,
                            sem_names, halted>>
     /\ \A p \in Procs :
          UnknownSetError(p)
          => /\ ~halted'[p]
             /\ UNCHANGED <<header, object_sem, channels, semaphores_,
                            sem_names>>]_vars

\* C19: when the destructor destroys the semaphores of an object, the
\* header of every channel of the manager has has_error set; when the
\* destructor is done the manager's semaphore map is empty.
C19_ErrorBeforeDestroy ==
  [][\A p \in Procs :
       /\ DestroySemaphores(p) => \A o \in ChannelMap(p) : HasError(o)
       /\ dpc'[p] = "done" => SemaphoreMap(p)' = {}]_vars

\* C16: destroying the provider terminates: once the destructor has begun
\* the process is not aborted, a ReadAcquire of the poll closure that
\* returns after the error was signalled returns IOError, the loop that
\* ended stays ended, and a closure that was blocked in ReadAcquire sends no
\* further RPC.
C16_ProviderDestructorTerminates ==
  [][destr # "none" =>
       /\ ~halted[Provider] => ~halted'[Provider]
       /\ ( /\ destr = "error"
            /\ pc[IOThread] = "ra_sem"
            /\ pc'[IOThread] = "idle" ) => ret'[IOThread] = "IOError"
       /\ fwd = "exit" => fwd' = "exit"
       /\ (destr = "error" /\ pc[IOThread] \in {"ra_lock", "ra_sem"})
            => pushed' = pushed]_vars

\* C17: on a channel without error the ReadAcquire of the poll closure that
\* RegisterWriterChannel posted is accepted: the call does not abort the
\* process.
C17_ForwarderReadAccepted ==
  [][(~header.has_error /\ PollReadAcquire(IOThread))
       => ~halted'[Provider]]_vars

\* C18: at most one PushMutableObject is in flight; one push is sent per
\* successful ReadAcquire, for the version it read; while the push is in
\* flight the read is still held (ReadRelease was not called and no
\* ReadAcquire was started), and the next ReadAcquire starts only when
\* every push has been replied to.
C18_OneRpcInFlight ==
  /\ in_flight \in {0, 1}
  /\ in_flight = Len(pushed) - replies
  /\ Len(pushed) <= Len(reads[Provider])
  /\ Len(reads[Provider]) <= Len(pushed) + 1
  /\ Len(reads[Provider]) = Len(pushed) + 1 => pc[IOThread] = "reading"
  /\ in_flight = 1 => pc[IOThread] = "reading"
  /\ \A i \in 1..Len(pushed) : pushed[i].version = reads[Provider][i]
  /\ pc[IOThread] \in {"ra_lock", "ra_sem"}
       => /\ in_flight = 0
          /\ replies = Len(pushed)
          /\ Len(pushed) = Len(reads[Provider])

\* The second push is in flight: the first was replied to and released.
C18_Witness ==
  /\ in_flight = 1
  /\ Len(pushed) = 2
  /\ replies = 1
  /\ pc[IOThread] = "reading"

\* C15: the handler of an inbound push is not aborted inside WriteAcquire,
\* and a local reader that holds version k reads the k-th push: the sizes of
\* the request, its first data_size bytes as data and the following
\* metadata_size bytes as metadata.
C15_PushRoundTrip ==
  /\ haltInfo[PushProvider].op # "WriteAcquire"
  /\ Reading(LocalReader) =>
       LET rd == reads[ProcOf(LocalReader)]
           k == rd[Len(rd)]
       IN /\ k <= Len(received)
          /\ header.data_size = received[k].data_size
          /\ header.metadata_size = received[k].metadata_size
          /\ ReadData = SubSeq(received[k].data, 1, received[k].data_size)
          /\ ReadMetadata =
               SubSeq(received[k].data, received[k].data_size + 1,
                      received[k].data_size + received[k].metadata_size)

\* C20: a ReadAcquire never fails its size assertion, and while a reader
\* holds the object it was handed the header's data_size + metadata_size is
\* at most allocated_size: the data slice [0, data_size) and the metadata
\* slice [data_size, data_size + metadata_size) lie inside the buffer.
C20_PayloadBound ==
  /\ \A p \in Procs : haltInfo[p].check # "total_size"
  /\ \A r \in ReaderThreads :
       Reading(r) =>
         /\ header.data_size >= 0
         /\ header.metadata_size >= 0
         /\ header.data_size + header.metadata_size <= allocated_size

\* A reader holds the second version, whose payload fills the buffer.
C20_Witness ==
  /\ \E r \in ReaderThreads :
       /\ Reading(r)
       /\ channels[ProcOf(r)].next_version_to_read = 2
  /\ header.data_size + header.metadata_size = allocated_size

\* C21: the read cursor of every channel stays within
\* 1 <= next_version_to_read <= header.version + 1 and never decreases; no
\* ReadAcquire fails its version_read > 0 assertion, a ReadAcquire that
\* returns OK leaves the cursor on the version it read (at least 1), and a
\* ReadRelease that returns OK leaves it one past that version.
C21_CursorBounds ==
  /\ [](\A p \in Procs :
          /\ channels[p].next_version_to_read >= 1
          /\ channels[p].next_version_to_read <= header.version + 1
          /\ haltInfo[p].check # "version_read")
  /\ [][\A t \in ReaderThreads :
          LET p == ProcOf(t)
              c0 == channels[p].next_version_to_read
              c1 == channels'[p].next_version_to_read
          IN /\ c1 >= c0
             /\ (pc[t] = "ra_sem" /\ pc'[t] = "reading")
                  => /\ c1 = reads'[p][Len(reads'[p])]
                     /\ c1 >= 1
             /\ (pc[t] = "reading" /\ Returned(t, "ReadRelease", "OK")')
                  => c1 = reads[p][Len(reads[p])] + 1]_vars

\* A channel has released the second version (its cursor is one past the
\* header's version) while another channel's cursor is still at 1.
C21_Witness ==
  /\ header.version = 2
  /\ \E r \in ReaderThreads :
       /\ Returned(r, "ReadRelease", "OK")
       /\ channels[ProcOf(r)].next_version_to_read = header.version + 1
  /\ \E q \in Procs :
       /\ channels[q].reader_registered
       /\ channels[q].next_version_to_read = 1

====
